---- MODULE Spec2Model ----
(***************************************************************************)
(* Model of ghaze (src/main.py): GitHubTrendingReporter.                   *)
(*                                                                         *)
(* A string is a sequence of atoms.  An atom is either one significant     *)
(* character ("-", " ", the newline, the tab, the double quote, the        *)
(* backslash, a non-ASCII letter, a JSON punctuation mark) or an opaque    *)
(* run of ordinary text that contains none of those characters.            *)
(* Time is counted in whole seconds since the start of the model.          *)
(***************************************************************************)
EXTENDS Integers, Sequences, FiniteSets, TLC

VARIABLES
    now,                    \* the wall clock (datetime.now()), in seconds
    ticks,                  \* how many times the clock has been advanced
    exists,                 \* os.path.exists(self.cache_file)
    content,                \* the characters of github_trending_cache.json
    mtime,                  \* os.path.getmtime(self.cache_file)
    pc,                     \* position of the run inside generate_daily_report
    all_trending,           \* locals of generate_daily_report
    all_repos_summary,
    golang_trending,
    golang_repos_summary,
    full_report,
    calls,                  \* the calls the current run has made, in order
    http,                   \* the response each fetch of the current run received
    console,                \* the panels display_report printed in the current run
    start,                  \* the file and the clock as the current run found them
    hist,                   \* the last save of a completed cache-miss run
    rt                      \* the record under test of the save/load round trip

vars == << now, ticks, exists, content, mtime, pc, all_trending,
           all_repos_summary, golang_trending, golang_repos_summary,
           full_report, calls, http, console, start, hist, rt >>

-----------------------------------------------------------------------------
(* Bounds of the model *)

MaxTicks == 3       \* clock advances explored
MaxLen == 2         \* longest string of the round-trip records

(* timedelta(hours=24), in seconds *)
Day == 86400

(* trending_repos[:10] *)
MaxRepos == 10

-----------------------------------------------------------------------------
(* str methods *)

Whitespace == {" ", "\n", "\t"}

RECURSIVE lstrip(_)
lstrip(s) ==
    IF s # << >> /\ Head(s) \in Whitespace THEN lstrip(Tail(s)) ELSE s

RECURSIVE rstrip(_)
rstrip(s) ==
    IF s # << >> /\ s[Len(s)] \in Whitespace
    THEN rstrip(SubSeq(s, 1, Len(s) - 1))
    ELSE s

strip(s) == rstrip(lstrip(s))

IsAt(s, i, sep) ==
    /\ i + Len(sep) - 1 <= Len(s)
    /\ \A k \in 1..Len(sep) : s[i + k - 1] = sep[k]

RECURSIVE SplitFrom(_, _, _, _)
SplitFrom(s, sep, i, from) ==
    IF i + Len(sep) - 1 > Len(s)
    THEN << SubSeq(s, from, Len(s)) >>
    ELSE IF IsAt(s, i, sep)
         THEN << SubSeq(s, from, i - 1) >>
                  \o SplitFrom(s, sep, i + Len(sep), i + Len(sep))
         ELSE SplitFrom(s, sep, i + 1, from)

(* s.split(sep): the pieces between the non-overlapping occurrences of sep,
   found from the left *)
split(s, sep) == SplitFrom(s, sep, 1, 1)

RECURSIVE join(_, _)
join(sep, parts) ==
    IF parts = << >> THEN << >>
    ELSE IF Len(parts) = 1 THEN parts[1]
    ELSE parts[1] \o sep \o join(sep, Tail(parts))

RECURSIVE remove(_, _)
(* s.replace(c, '') for a one-character c *)
remove(s, c) ==
    IF s = << >> THEN << >>
    ELSE IF Head(s) = c THEN remove(Tail(s), c)
    ELSE << Head(s) >> \o remove(Tail(s), c)

Delimiter == << "-", "-", "-" >>

-----------------------------------------------------------------------------
(* json.dump(report_data, f, indent=4) and json.load(f), for objects whose
   values are strings *)

NonAscii == {"é"}
Hex(c) == "00e9"
Unhex(h) == "é"
HexCodes == {"00e9"}

EscapeOf_raw(c) == << c >>

(* the two-character escapes of the encoder (ensure_ascii is left True) *)
EscapeOf(c) ==
    CASE c = "\"" -> << "\\", "\"" >>
      [] c = "\\" -> << "\\", "\\" >>
      [] c = "\n" -> << "\\", "n" >>
      [] c = "\t" -> << "\\", "t" >>
      [] c \in NonAscii -> << "\\", "u", Hex(c) >>
      [] OTHER -> << c >>

RECURSIVE Escaped(_)
Escaped(s) ==
    IF s = << >> THEN << >> ELSE EscapeOf(Head(s)) \o Escaped(Tail(s))

encode_string(s) == << "\"" >> \o Escaped(s) \o << "\"" >>

Indent == << " ", " ", " ", " " >>

RECURSIVE dump_items(_)
dump_items(items) ==
    IF items = << >> THEN << >>
    ELSE << "\n" >> \o Indent \o encode_string(items[1][1]) \o << ":", " " >>
            \o encode_string(items[1][2])
            \o (IF Len(items) > 1 THEN << "," >> ELSE << >>)
            \o dump_items(Tail(items))

(* items: the dict's (key, value) pairs in insertion order *)
json_dump(items) ==
    IF items = << >> THEN << "{", "}" >>
    ELSE << "{" >> \o dump_items(items) \o << "\n", "}" >>

JsonWs == {" ", "\n", "\t", "\r"}

RECURSIVE skip_ws(_, _)
skip_ws(s, i) ==
    IF i <= Len(s) /\ s[i] \in JsonWs THEN skip_ws(s, i + 1) ELSE i

Bad == [ok |-> FALSE, val |-> << >>, next |-> 0]

RECURSIVE ScanChars(_, _, _)
ScanChars(s, j, acc) ==
    IF j > Len(s) THEN Bad
    ELSE IF s[j] = "\"" THEN [ok |-> TRUE, val |-> acc, next |-> j + 1]
    ELSE IF s[j] = "\\" THEN
        IF j + 1 > Len(s) THEN Bad
        ELSE CASE s[j + 1] = "\"" -> ScanChars(s, j + 2, Append(acc, "\""))
               [] s[j + 1] = "\\" -> ScanChars(s, j + 2, Append(acc, "\\"))
               [] s[j + 1] = "n" -> ScanChars(s, j + 2, Append(acc, "\n"))
               [] s[j + 1] = "t" -> ScanChars(s, j + 2, Append(acc, "\t"))
               [] s[j + 1] = "u" ->
                    IF j + 2 <= Len(s) /\ s[j + 2] \in HexCodes
                    THEN ScanChars(s, j + 3, Append(acc, Unhex(s[j + 2])))
                    ELSE Bad
               [] OTHER -> Bad
    ELSE IF s[j] \in {"\n", "\t", "\r"} THEN Bad   \* control character in a string
    ELSE ScanChars(s, j + 1, Append(acc, s[j]))

(* a string literal starting at s[i] *)
scanstring(s, i) ==
    IF i <= Len(s) /\ s[i] = "\"" THEN ScanChars(s, i + 1, << >>) ELSE Bad

RECURSIVE Members(_, _, _)
Members(s, i, acc) ==
    LET key == scanstring(s, i)
        colon == skip_ws(s, key.next)
        value == scanstring(s, skip_ws(s, colon + 1))
        after == skip_ws(s, value.next)
        dict == (key.val :> value.val) @@ acc      \* a repeated key keeps the last value
    IN  IF ~key.ok \/ colon > Len(s) \/ s[colon] # ":" THEN Bad
        ELSE IF ~value.ok \/ after > Len(s) THEN Bad
        ELSE IF s[after] = "," THEN Members(s, skip_ws(s, after + 1), dict)
        ELSE IF s[after] = "}" THEN [ok |-> TRUE, val |-> dict, next |-> after + 1]
        ELSE Bad

JSONObject(s, i) ==
    LET first == skip_ws(s, i + 1)
    IN  IF first <= Len(s) /\ s[first] = "}"
        THEN [ok |-> TRUE, val |-> << >>, next |-> first + 1]
        ELSE Members(s, first, << >>)

(* json.load: ok is FALSE where the decoder raises JSONDecodeError *)
json_load(s) ==
    LET i == skip_ws(s, 1)
        obj == IF i <= Len(s) /\ s[i] = "{" THEN JSONObject(s, i) ELSE Bad
    IN  IF ~obj.ok THEN Bad
        ELSE IF skip_ws(s, obj.next) <= Len(s) THEN Bad      \* Extra data
        ELSE obj

-----------------------------------------------------------------------------
(* datetime formatting; the clock starts at 1970-01-01T00:00:00 *)

(* datetime.now().strftime('%Y-%m-%d') *)
strftime_date(t) == << "1970", "-", "01", "-", ToString((t \div Day) + 1) >>

(* datetime.now().isoformat() *)
isoformat(t) == strftime_date(t) \o << "T", ToString(t % Day) >>

-----------------------------------------------------------------------------
(* Cache Store *)

should_refresh_cache_ge ==
    IF ~exists THEN TRUE ELSE (now - mtime) >= Day

should_refresh_cache_always == TRUE

(* should_refresh_cache: True when the file is absent or older than 24 hours *)
should_refresh_cache ==
    IF ~exists THEN TRUE ELSE (now - mtime) > Day

(* load_cached_report: json.load of the file's characters *)
load_cached_report == IF exists THEN json_load(content) ELSE Bad

open_keep(old) == old

(* open(self.cache_file, 'w'): the file is truncated to length zero *)
open_w(old) == << >>

(* f.write at offset 0 of the opened file *)
write(buf, data) == data \o SubSeq(buf, Len(data) + 1, Len(buf))

(* save_cache: the file is created or replaced, and its modification time set *)
save_cache(report_data) ==
    /\ exists' = TRUE
    /\ content' = write(open_w(content), json_dump(report_data))
    /\ mtime' = now

-----------------------------------------------------------------------------
(* Fetcher *)

(* listing entries (article.Box-row): the texts of its h2.h3 elements, of its
   p.col-9 elements and of its a.Link--muted elements, in document order *)
EntryFull ==
    [h2 |-> << << "\n", " ", "owner", " ", "/", "\n", " ", "repo", "\n" >> >>,
     p  |-> << << "\n", " ", "a tool", "\n" >> >>,
     a  |-> << << "\n", "1,234" >>, << "\n", "56" >> >>]
EntryNoDescription == [EntryFull EXCEPT !.p = << >>]
EntryNoTitle == [EntryFull EXCEPT !.h2 = << >>]
EntryOneLink == [EntryFull EXCEPT !.a = << << "\n", "1,234" >> >>]

Pages ==
    { << EntryFull >>, << EntryNoDescription >>, << EntryNoTitle >>,
      << EntryOneLink >>, [i \in 1..(MaxRepos + 1) |-> EntryFull] }

(* what requests.get can produce: an exception, or a response with a status
   code and a body; the body of an error response lists no repository *)
Responses ==
    { [kind |-> "exception", status |-> 0, page |-> << >>] }
      \cup { [kind |-> "response", status |-> 200, page |-> pg] : pg \in Pages }
      \cup { [kind |-> "response", status |-> 429, page |-> << >>] }

Raise(e) == [err |-> e, repos |-> << >>]

full_name_of(article) ==
    remove(remove(strip(article.h2[1]), "\n"), " ")

(* the record the loop body builds for one article *)
repo_of(article) ==
    [full_name |-> full_name_of(article),
     description |-> IF article.p # << >> THEN strip(article.p[1]) ELSE << >>,
     html_url |-> << "https://github.com/" >> \o full_name_of(article),
     stargazers_count |-> strip(article.a[2])]

RECURSIVE scrape(_, _)
(* the loop over the articles: None.get_text() and [1] of a short list raise *)
scrape(articles, trending_repos) ==
    IF articles = << >> THEN [err |-> "", repos |-> trending_repos]
    ELSE IF Head(articles).h2 = << >> THEN Raise("AttributeError")
    ELSE IF Len(Head(articles).a) < 2 THEN Raise("IndexError")
    ELSE scrape(Tail(articles), Append(trending_repos, repo_of(Head(articles))))

(* fetch_trending_repos, given what requests.get produced; the status code
   of the response is never read *)
fetch_trending_repos(language, response) ==
    IF response.kind = "exception" THEN Raise("ConnectionError")
    ELSE LET r == scrape(response.page, << >>)
         IN  IF r.err # "" THEN r
             ELSE [err |-> "",
                   repos |-> SubSeq(r.repos, 1,
                                 IF Len(r.repos) < MaxRepos THEN Len(r.repos)
                                 ELSE MaxRepos)]

-----------------------------------------------------------------------------
(* Summarizer: the text-generation service returns some text or fails *)

Summaries == { << "s1" >>, << "title", "\n", "body" >> }

Completions ==
    { [err |-> "ServiceError", text |-> << >>] }
      \cup { [err |-> "", text |-> s] : s \in Summaries }

-----------------------------------------------------------------------------
(* Renderer *)

RECURSIVE Panels(_)
(* the loop of display_report over the sections *)
Panels(sections) ==
    IF sections = << >> THEN << >>
    ELSE LET section == Head(sections)
             lines == split(strip(section), << "\n" >>)
         IN  (IF strip(section) # << >>
              THEN << [title |-> lines[1],
                       body |-> join(<< "\n" >>, Tail(lines))] >>
              ELSE << >>)
             \o Panels(Tail(sections))

Banner(t) ==
    << [title |-> << "GitHub Trending Repositories Report" >>,
        body |-> << "Generated on: " >> \o strftime_date(t)] >>

(* what display_report prints: the banner with the date, then one panel per
   non-blank section of report.split("---") *)
display_report(report) == Banner(now) \o Panels(split(report, Delimiter))

SectionPanels(report) == Panels(split(report, Delimiter))

-----------------------------------------------------------------------------
(* Reporter *)

(* the f-string of generate_daily_report *)
report_text(t, all_summary, golang_summary) ==
    << "Daily GitHub Trending Repositories Report", "\n" >>
      \o strftime_date(t)
      \o << "\n", "\n", "-", "-", "-", " ", "All Trending Repositories", " ",
            "-", "-", "-", "\n" >>
      \o all_summary
      \o << "\n", "\n", "-", "-", "-", " ", "Trending Golang Repositories", " ",
            "-", "-", "-", "\n" >>
      \o golang_summary
      \o << "\n" >>

cache_data_of(t, report) ==
    << << << "timestamp" >>, isoformat(t) >>, << << "full_report" >>, report >> >>

Call(op, arg) == [op |-> op, arg |-> arg]

NoHist == [valid |-> FALSE, savedAt |-> 0, body |-> << >>, reused |-> FALSE]
NoStart == [exists |-> FALSE, content |-> << >>, mtime |-> 0, now |-> 0,
            hist |-> NoHist]
RtIdle == [phase |-> "none", timestamp |-> << >>, full_report |-> << >>,
           prior |-> 0, ok |-> FALSE, loaded |-> << >>]

(* cache files some other program, an editor or an interrupted write can leave *)
CorruptFile == << "{", "\n", " ", "\"", "timestamp", "\"", ":" >>
NoReportFile == json_dump(<< << << "timestamp" >>, isoformat(0) >> >>)
OtherFile ==
    json_dump(<< << << "timestamp" >>, << "2001" >> >>,
                 << << "full_report" >>,
                    << "-", "-", "-", " ", "old", "\n", "text" >> >> >>)
ExternalContents == { CorruptFile, NoReportFile, OtherFile }

Init ==
    /\ now = 0
    /\ ticks = 0
    /\ \/ exists = FALSE /\ content = << >>
       \/ exists = TRUE /\ content \in ExternalContents
    /\ mtime = 0
    /\ pc = "idle"
    /\ all_trending = << >>
    /\ all_repos_summary = << >>
    /\ golang_trending = << >>
    /\ golang_repos_summary = << >>
    /\ full_report = << >>
    /\ calls = << >>
    /\ http = << >>
    /\ console = << >>
    /\ start = NoStart
    /\ hist = NoHist
    /\ rt = RtIdle

file == << exists, content, mtime >>
locals == << all_trending, all_repos_summary, golang_trending,
             golang_repos_summary, full_report >>

(* the clock advances between two runs and between any two steps of a run *)
Tick ==
    /\ pc \notin {"done", "failed"}
    /\ ticks < MaxTicks
    /\ \E d \in {1, Day - 1} : now' = now + d
    /\ ticks' = ticks + 1
    /\ UNCHANGED << file, pc, locals, calls, http, console, start, hist, rt >>

(* another program replaces or removes the cache file between two runs *)
ExternalWrite ==
    /\ pc = "idle"
    /\ \E c \in ExternalContents :
          /\ ~(exists /\ content = c /\ mtime = now)
          /\ content' = c
    /\ exists' = TRUE
    /\ mtime' = now
    /\ hist' = NoHist
    /\ UNCHANGED << now, ticks, pc, locals, calls, http, console, start, rt >>

ExternalDelete ==
    /\ pc = "idle"
    /\ exists
    /\ exists' = FALSE
    /\ content' = << >>
    /\ mtime' = 0
    /\ hist' = NoHist
    /\ UNCHANGED << now, ticks, pc, locals, calls, http, console, start, rt >>

(* main() and the first statement of generate_daily_report *)
Start ==
    /\ pc = "idle"
    /\ start' = [exists |-> exists, content |-> content, mtime |-> mtime,
                 now |-> now, hist |-> hist]
    /\ pc' = IF should_refresh_cache THEN "fetch_all" ELSE "load"
    /\ UNCHANGED << now, ticks, file, locals, calls, http, console, hist, rt >>

LoadCachedFallback ==
    /\ pc = "load"
    /\ LET cached_data == load_cached_report
       IN  IF cached_data.ok /\ << "full_report" >> \in DOMAIN cached_data.val
           THEN /\ calls' = calls \o << Call("load_cached_report", << >>),
                     Call("display_report", cached_data.val[<< "full_report" >>]) >>
                /\ console' = display_report(cached_data.val[<< "full_report" >>])
                /\ pc' = "done"
           ELSE /\ calls' = Append(calls, Call("load_cached_report", << >>))
                /\ console' = console
                /\ pc' = "fetch_all"
    /\ hist' = hist
    /\ UNCHANGED << now, ticks, file, locals, http, start, rt >>

(* the cache-hit branch: load, then display cached_data['full_report'] *)
LoadCached ==
    /\ pc = "load"
    /\ LET cached_data == load_cached_report
       IN  IF ~cached_data.ok
           THEN /\ calls' = Append(calls, Call("load_cached_report", << >>))
                /\ console' = console
                /\ pc' = "failed"                      \* JSONDecodeError
           ELSE IF << "full_report" >> \notin DOMAIN cached_data.val
           THEN /\ calls' = Append(calls, Call("load_cached_report", << >>))
                /\ console' = console
                /\ pc' = "failed"                      \* KeyError
           ELSE /\ calls' = calls \o << Call("load_cached_report", << >>),
                     Call("display_report", cached_data.val[<< "full_report" >>]) >>
                /\ console' = display_report(cached_data.val[<< "full_report" >>])
                /\ pc' = "done"
    /\ hist' = IF pc' = "done" /\ hist.valid
               THEN [hist EXCEPT !.reused = TRUE] ELSE hist
    /\ UNCHANGED << now, ticks, file, locals, http, start, rt >>

(* all_trending = self.fetch_trending_repos() *)
FetchAll ==
    /\ pc = "fetch_all"
    /\ \E response \in Responses :
          LET r == fetch_trending_repos(<< >>, response)
          IN  /\ calls' = Append(calls, Call("fetch_trending_repos", << >>))
              /\ http' = Append(http, response)
              /\ IF r.err # ""
                 THEN pc' = "failed" /\ all_trending' = all_trending
                 ELSE pc' = "sum_all" /\ all_trending' = r.repos
    /\ UNCHANGED << now, ticks, file, all_repos_summary, golang_trending,
                    golang_repos_summary, full_report, console, start, hist, rt >>

(* all_repos_summary = self.generate_repo_summary(all_trending) *)
SummarizeAll ==
    /\ pc = "sum_all"
    /\ \E completion \in Completions :
          /\ calls' = Append(calls, Call("generate_repo_summary", all_trending))
          /\ IF completion.err # ""
             THEN pc' = "failed" /\ all_repos_summary' = all_repos_summary
             ELSE pc' = "fetch_go" /\ all_repos_summary' = completion.text
    /\ UNCHANGED << now, ticks, file, all_trending, golang_trending,
                    golang_repos_summary, full_report, http, console, start,
                    hist, rt >>

(* golang_trending = self.fetch_trending_repos(language='go') *)
FetchGo ==
    /\ pc = "fetch_go"
    /\ \E response \in Responses :
          LET r == fetch_trending_repos(<< "go" >>, response)
          IN  /\ calls' = Append(calls, Call("fetch_trending_repos", << "go" >>))
              /\ http' = Append(http, response)
              /\ IF r.err # ""
                 THEN pc' = "failed" /\ golang_trending' = golang_trending
                 ELSE pc' = "sum_go" /\ golang_trending' = r.repos
    /\ UNCHANGED << now, ticks, file, all_trending, all_repos_summary,
                    golang_repos_summary, full_report, console, start, hist, rt >>

SummarizeGoThenSave ==
    /\ pc = "sum_go"
    /\ \E completion \in Completions :
          /\ calls' = calls \o
                << Call("generate_repo_summary", golang_trending),
                   Call("save_cache", cache_data_of(now, << >>)) >>
          /\ save_cache(cache_data_of(now, << >>))
          /\ IF completion.err # ""
             THEN pc' = "failed" /\ golang_repos_summary' = golang_repos_summary
             ELSE pc' = "save" /\ golang_repos_summary' = completion.text
    /\ UNCHANGED << now, ticks, all_trending, all_repos_summary,
                    golang_trending, full_report, http, console, start, hist, rt >>

(* golang_repos_summary = self.generate_repo_summary(golang_trending) *)
SummarizeGo ==
    /\ pc = "sum_go"
    /\ \E completion \in Completions :
          /\ calls' = Append(calls, Call("generate_repo_summary", golang_trending))
          /\ IF completion.err # ""
             THEN pc' = "failed" /\ golang_repos_summary' = golang_repos_summary
             ELSE pc' = "save" /\ golang_repos_summary' = completion.text
    /\ UNCHANGED << now, ticks, file, all_trending, all_repos_summary,
                    golang_trending, full_report, http, console, start, hist, rt >>

DisplayThenSave ==
    /\ pc = "save"
    /\ full_report' = report_text(now, all_repos_summary, golang_repos_summary)
    /\ calls' = Append(calls, Call("display_report", full_report'))
    /\ console' = display_report(full_report')
    /\ pc' = "display"
    /\ UNCHANGED << now, ticks, file, all_trending, all_repos_summary,
                    golang_trending, golang_repos_summary, http, start,
                    hist, rt >>

(* the report is composed, and saved with the time of composition *)
SaveReport ==
    /\ pc = "save"
    /\ full_report' = report_text(now, all_repos_summary, golang_repos_summary)
    /\ calls' = Append(calls, Call("save_cache", cache_data_of(now, full_report')))
    /\ save_cache(cache_data_of(now, full_report'))
    /\ pc' = "display"
    /\ UNCHANGED << now, ticks, all_trending, all_repos_summary,
                    golang_trending, golang_repos_summary, http, console,
                    start, hist, rt >>

(* self.display_report(full_report), the last call of the cache-miss branch *)
DisplayFresh ==
    /\ pc = "display"
    /\ calls' = Append(calls, Call("display_report", full_report))
    /\ console' = display_report(full_report)
    /\ pc' = "done"
    /\ hist' = [valid |-> TRUE, savedAt |-> mtime, body |-> full_report,
                reused |-> FALSE]
    /\ UNCHANGED << now, ticks, file, locals, http, start, rt >>

(* the process ends: its memory and its terminal output are gone *)
Exit ==
    /\ pc \in {"done", "failed"}
    /\ pc' = "idle"
    /\ all_trending' = << >>
    /\ all_repos_summary' = << >>
    /\ golang_trending' = << >>
    /\ golang_repos_summary' = << >>
    /\ full_report' = << >>
    /\ calls' = << >>
    /\ http' = << >>
    /\ console' = << >>
    /\ start' = NoStart
    /\ UNCHANGED << now, ticks, file, hist, rt >>

Next ==
    \/ Tick
    \/ ExternalWrite
    \/ ExternalDelete
    \/ Start
    \/ LoadCached
    \/ FetchAll
    \/ SummarizeAll
    \/ FetchGo
    \/ SummarizeGo
    \/ SaveReport
    \/ DisplayFresh
    \/ Exit

Spec == Init /\ [][Next]_vars

-----------------------------------------------------------------------------
(* The save/load round trip on its own: any record, over any earlier file *)

Alphabet == {"a", "\"", "\\", "\n", "é"}
Strings == UNION { [1..n -> Alphabet] : n \in 0..MaxLen }

LongFile ==
    json_dump(cache_data_of(0, report_text(0, << "s1" >>, << "s1" >>)))

InitRT ==
    /\ now = 0
    /\ ticks = 0
    /\ \/ exists = FALSE /\ content = << >>
       \/ exists = TRUE /\ content \in {<< >>, CorruptFile, LongFile}
    /\ mtime = 0
    /\ pc = "idle"
    /\ all_trending = << >>
    /\ all_repos_summary = << >>
    /\ golang_trending = << >>
    /\ golang_repos_summary = << >>
    /\ full_report = << >>
    /\ calls = << >>
    /\ http = << >>
    /\ console = << >>
    /\ start = NoStart
    /\ hist = NoHist
    /\ rt = RtIdle

RTSave ==
    /\ rt.phase = "none"
    /\ \E ts \in Strings, body \in Strings :
          /\ save_cache(<< << << "timestamp" >>, ts >>,
                           << << "full_report" >>, body >> >>)
          /\ rt' = [rt EXCEPT !.phase = "saved", !.timestamp = ts,
                              !.full_report = body, !.prior = Len(content)]
    /\ UNCHANGED << now, ticks, pc, locals, calls, http, console, start, hist >>

RTLoad ==
    /\ rt.phase = "saved"
    /\ LET r == load_cached_report
       IN  rt' = [rt EXCEPT !.phase = "loaded", !.ok = r.ok, !.loaded = r.val]
    /\ UNCHANGED << now, ticks, file, pc, locals, calls, http, console, start,
                    hist >>

NextRT ==
    \/ RTSave
    \/ RTLoad

SpecRT == InitRT /\ [][NextRT]_vars

-----------------------------------------------------------------------------
(* Vocabulary of the properties *)

Ops == [i \in 1..Len(calls) |-> calls[i].op]

MissOrder ==
    << "fetch_trending_repos", "generate_repo_summary", "fetch_trending_repos",
       "generate_repo_summary", "save_cache", "display_report" >>

(* the run found the file present and at most 24 hours old *)
StartFresh == start.exists /\ (start.now - start.mtime) <= Day

StartAge == start.now - start.mtime

WellFormed(c) ==
    json_load(c).ok /\ << "full_report" >> \in DOMAIN json_load(c).val

StoredReport(c) == json_load(c).val[<< "full_report" >>]

TookHit == pc = "load" \/ (calls # << >> /\ calls[1].op = "load_cached_report")

FileAsFound ==
    /\ exists = start.exists
    /\ content = start.content
    /\ mtime = start.mtime

Called(op) == \E i \in 1..Len(calls) : calls[i].op = op

ContainsDelimiter(s) == \E i \in 1..Len(s) : IsAt(s, i, Delimiter)

-----------------------------------------------------------------------------
(* C1: a run takes the cache-hit branch exactly when it found the cache file
   present and modified at most 24 hours before; nothing else of the file,
   its embedded timestamp included, enters the decision. *)
C1_Freshness ==
    pc # "idle" => (TookHit <=> (start.exists /\ StartAge <= Day))

(* a run that found a file modified 24 hours minus one second before *)
C1_Witness == pc = "load" /\ start.exists /\ StartAge = Day - 1

(* C2: a run that finds a fresh, well-formed cache never fetches, summarizes
   or saves, leaves the file as it found it, does not fail, and hands
   display_report exactly the stored full_report. *)
C2_CacheHit ==
    (pc # "idle" /\ StartFresh /\ WellFormed(start.content)) =>
        /\ ~Called("fetch_trending_repos")
        /\ ~Called("generate_repo_summary")
        /\ ~Called("save_cache")
        /\ FileAsFound
        /\ pc \in {"load", "done"}
        /\ pc = "done" =>
              /\ Ops = << "load_cached_report", "display_report" >>
              /\ calls[2].arg = StoredReport(start.content)
              /\ console = Banner(now) \o SectionPanels(StoredReport(start.content))

C2_Witness ==
    pc = "done" /\ StartFresh /\ WellFormed(start.content) /\ Called("display_report")

(* C3: a run that finds the cache absent or stale and in which no call fails
   makes its calls in the order fetch(), summarize, fetch('go'), summarize,
   save_cache, display_report, each once, each summarize on the records the
   fetch before it returned; the saved full_report is the rendered body and
   nothing is rendered before the save. *)
C3_MissOrder ==
    (pc \notin {"idle", "failed"} /\ ~StartFresh) =>
        /\ Ops = SubSeq(MissOrder, 1, Len(calls))
        /\ (console # << >> => Called("save_cache"))
        /\ (pc = "done" =>
              /\ Len(calls) = 6
              /\ calls[1].arg = << >>
              /\ calls[2].arg = fetch_trending_repos(<< >>, http[1]).repos
              /\ calls[3].arg = << "go" >>
              /\ calls[4].arg = fetch_trending_repos(<< "go" >>, http[2]).repos
              /\ calls[5].arg[2][2] = calls[6].arg
              /\ calls[6].arg = full_report
              /\ StoredReport(content) = calls[6].arg
              /\ mtime >= start.now)

C3_Witness == pc = "done" /\ start.exists /\ ~StartFresh /\ Len(calls) = 6

(* C4: when a fetch or a summarize of a cache-miss run fails, that call is
   the run's last, the cache file is as the run found it, and nothing was
   rendered. *)
C4_NoPartialSave ==
    (pc = "failed" /\ ~StartFresh) =>
        /\ Len(calls) \in 1..4
        /\ Ops = SubSeq(MissOrder, 1, Len(calls))
        /\ FileAsFound
        /\ console = << >>
        /\ Len(http) = (Len(calls) + 1) \div 2
        /\ (Len(calls) \in {1, 3} =>
              fetch_trending_repos(calls[Len(calls)].arg, http[Len(http)]).err # "")

(* the fetch of the Go listing failed over a stale cache *)
C4_Witness ==
    pc = "failed" /\ start.exists /\ ~StartFresh /\ Len(calls) = 3

(* C5: a fetch that received a non-success HTTP status fails: it is the
   last call of its run, which returns no records, summarizes nothing and
   caches nothing. *)
C5_StatusFails ==
    \A i \in 1..Len(http) :
        (http[i].kind = "response" /\ http[i].status # 200) =>
            (pc = "failed" /\ Len(calls) = 2 * i - 1)

(* the record C6 expects for an entry: a missing element gives an empty field *)
repo_lenient(article) ==
    LET full_name == IF article.h2 = << >> THEN << >> ELSE full_name_of(article)
    IN  [full_name |-> full_name,
         description |-> IF article.p # << >> THEN strip(article.p[1]) ELSE << >>,
         html_url |-> << "https://github.com/" >> \o full_name,
         stargazers_count |->
             IF Len(article.a) < 2 THEN << >> ELSE strip(article.a[2])]

LacksOne(article) ==
    \/ article.h2 = << >> /\ article.p # << >> /\ Len(article.a) >= 2
    \/ article.h2 # << >> /\ article.p = << >> /\ Len(article.a) >= 2
    \/ article.h2 # << >> /\ article.p # << >> /\ Len(article.a) < 2

(* C6: a fetch whose page has an entry lacking one of its title, description
   or star-count elements does not fail, and returns for each entry a record
   with the missing field empty. *)
C6_FieldsNonFatal ==
    \A i \in 1..Len(http) :
        (/\ http[i].kind = "response"
         /\ \E k \in 1..Len(http[i].page) : LacksOne(http[i].page[k])) =>
            /\ ~(pc = "failed" /\ Len(calls) = 2 * i - 1)
            /\ (i = 1 /\ Len(calls) >= 1) =>
                  all_trending = [k \in 1..Len(http[i].page) |->
                                      repo_lenient(http[i].page[k])]

(* C7: a run that finds a fresh cache file that is not valid JSON, or has no
   full_report, fails: it fetches nothing, renders nothing and leaves the
   file as it found it. *)
C7_CorruptFatal ==
    (pc # "idle" /\ StartFresh /\ ~WellFormed(start.content)) =>
        /\ pc \in {"load", "failed"}
        /\ \A i \in 1..Len(calls) : calls[i].op = "load_cached_report"
        /\ console = << >>
        /\ FileAsFound

C7_Witness ==
    pc = "failed" /\ StartFresh /\ ~json_load(start.content).ok

(* C8: after save_cache of a record, load_cached_report succeeds and returns
   exactly the two fields saved, whatever the file held before. *)
C8_RoundTrip ==
    rt.phase = "loaded" =>
        /\ rt.ok
        /\ DOMAIN rt.loaded = { << "timestamp" >>, << "full_report" >> }
        /\ rt.loaded[<< "timestamp" >>] = rt.timestamp
        /\ rt.loaded[<< "full_report" >>] = rt.full_report

(* a record with characters the encoder escapes, saved over a longer file *)
C8_Witness ==
    /\ rt.phase = "loaded"
    /\ rt.prior > Len(content)
    /\ \E i \in 1..Len(rt.full_report) : rt.full_report[i] \in {"\"", "\\", "\n", "é"}

(* C9: display_report prints, for the body a cache-miss run built from two
   non-empty summaries without the delimiter, exactly two panels: 'All
   Trending Repositories' over the first summary and 'Trending Golang
   Repositories' over the second. *)
C9_TwoSections ==
    (/\ pc = "done"
     /\ Called("save_cache")
     /\ all_repos_summary # << >> /\ ~ContainsDelimiter(all_repos_summary)
     /\ golang_repos_summary # << >> /\ ~ContainsDelimiter(golang_repos_summary)) =>
        console = Banner(now) \o
            << [title |-> << "All Trending Repositories" >>,
                body |-> all_repos_summary],
               [title |-> << "Trending Golang Repositories" >>,
                body |-> golang_repos_summary] >>

(* a run started no more than 24 hours after the save of a completed
   cache-miss run, the file untouched since, takes the cache-hit branch and
   renders the body that run rendered *)
ReusedWithinDay ==
    (pc # "idle" /\ start.hist.valid /\ start.now - start.hist.savedAt <= Day) =>
        /\ pc \in {"load", "done"}
        /\ ~Called("fetch_trending_repos")
        /\ ~Called("generate_repo_summary")
        /\ ~Called("save_cache")
        /\ FileAsFound
        /\ pc = "done" =>
              /\ Ops = << "load_cached_report", "display_report" >>
              /\ calls[2].arg = start.hist.body

StartedLater ==
    pc # "idle" /\ start.hist.valid /\ start.now - start.hist.savedAt > Day

Overwrote ==
    /\ Called("save_cache")
    /\ mtime >= start.now
    /\ StoredReport(content) = full_report

(* every listing page the run received was a success response whose entries
   have all their elements *)
PagesWellFormed ==
    \A i \in 1..Len(http) :
        http[i].kind = "response" =>
            /\ http[i].status = 200
            /\ \A k \in 1..Len(http[i].page) : http[i].page[k] = EntryFull

(* C10, as written: reuse within 24 hours of the save; and the run started
   later than that takes the cache-miss branch and overwrites the file.
   The runs looked at are those whose listing pages are all well formed, so
   that a violation rests on a failure of the network or of the
   text-generation service alone. *)
C10_Original ==
    /\ ReusedWithinDay
    /\ StartedLater => ~TookHit
    /\ (StartedLater /\ pc \in {"done", "failed"} /\ PagesWellFormed) => Overwrote

(* C10, amended: reuse within 24 hours of the save; and the run started later
   than that takes the cache-miss branch and, when none of its calls fails,
   overwrites the file. *)
C10_Amended ==
    /\ ReusedWithinDay
    /\ StartedLater => ~TookHit
    /\ (StartedLater /\ pc = "done") => Overwrote
    /\ (StartedLater /\ pc = "failed") => FileAsFound

(* a cache reused by a run within the day is overwritten by a run started
   more than 24 hours after its save *)
C10_Witness ==
    StartedLater /\ start.hist.reused /\ pc = "done" /\ Overwrote

====
